---------------------------- MODULE Spec2Model ----------------------------
(***************************************************************************)
(* A model of the k-Dollo sampling pipeline of this repository:            *)
(*   generate_formula.py  get_cnf, parse_allowed_losses, read_matrix and   *)
(*                        the script's main block;                         *)
(*   generate_samples.py  the sampler wrappers, the unigen normalisation,  *)
(*                        clean_up and the script's main block.            *)
(* get_vars.py, get_clauses.py and reconstruct_solutions.py are imported   *)
(* by these two files but are not part of the sources at hand; the         *)
(* operators that stand for them follow the design document (sections 3,   *)
(* 4.1, 4.2 and 4.3) and are marked "design document" below.               *)
(*                                                                         *)
(* Conventions.  Python lists are sequences, so Python index k is index    *)
(* k+1 here; the column numbers of the allowed-losses file stay 0-based,   *)
(* as int() parsed them.  A CNF variable is a positive integer, a literal  *)
(* a non-zero integer, a clause line a record [family, lits].              *)
(***************************************************************************)
EXTENDS Integers, Sequences, FiniteSets, TLC

\* ------------------------------------------------------------------ bounds
\* A matrix file holds at most MaxCells cells (rows * columns).
MaxCells == 4
\* Cluster counts --s and --t range over 0..MaxClusters.
MaxClusters == 2
\* Column numbers written in an allowed-losses file range over 0..MaxLossIndex.
MaxLossIndex == 1
\* The matrix files of a sampling run hold at most MaxSampleCells cells.
MaxSampleCells == 3

\* ----------------------------------------------------------------- helpers
RECURSIVE Flatten(_)
Flatten(ss) == IF ss = <<>> THEN <<>> ELSE Head(ss) \o Flatten(Tail(ss))

Abs(x) == IF x < 0 THEN -x ELSE x

\* What an f-string prints for a Python value: an int prints as one integer,
\* a list as a bracketed list.  tag keeps the two apart.
PyInt(k) == [tag |-> "int", ints |-> <<k>>]
PyList(l) == [tag |-> "list", ints |-> l]

\* -------------------------------------------------- get_vars (design document)
EmptyVars ==
  [false_positives |-> <<>>, false_negatives |-> <<>>, is_two |-> <<>>,
   pair_in_col_equal |-> <<>>, pair_in_row_equal |-> <<>>,
   row_is_duplicate |-> <<>>, col_is_duplicate |-> <<>>]

\* Design document 3 and 4.1: one dense index per unknown, contiguous from 1,
\* category after category.  col_is_duplicate is allocated last: get_cnf
\* reads the variable count off it.  FalsePositive, FalseNegative and IsTwo
\* are per cell; pair_in_col_equal[i][k][j] is RowPairEqualAtCol(i,k,j);
\* pair_in_row_equal[j][l][i] its counterpart for columns j, l at row i;
\* row_is_duplicate[i][c] is RowAssign(i,c), col_is_duplicate[j][c] is
\* ColAssign(j,c).
create_variable_matrices(matrix, s, t) ==
  LET n == Len(matrix)
      m == Len(matrix[1])
      o_fn == n * m
      o_two == 2 * n * m
      o_pc == 3 * n * m
      o_pr == o_pc + n * n * m
      o_rd == o_pr + m * m * n
      o_cd == o_rd + n * s
  IN [false_positives |-> [i \in 1..n |-> [j \in 1..m |-> (i-1)*m + j]],
      false_negatives |-> [i \in 1..n |-> [j \in 1..m |-> o_fn + (i-1)*m + j]],
      is_two |-> [i \in 1..n |-> [j \in 1..m |-> o_two + (i-1)*m + j]],
      pair_in_col_equal |->
        [i \in 1..n |-> [k \in 1..n |-> [j \in 1..m |->
           o_pc + ((i-1)*n + (k-1))*m + j]]],
      pair_in_row_equal |->
        [j \in 1..m |-> [l \in 1..m |-> [i \in 1..n |->
           o_pr + ((j-1)*m + (l-1))*n + i]]],
      row_is_duplicate |-> [i \in 1..n |-> [c \in 1..s |-> o_rd + (i-1)*s + c]],
      col_is_duplicate |-> [j \in 1..m |-> [c \in 1..t |-> o_cd + (j-1)*t + c]]]

\* The number of variables create_variable_matrices hands out.
TotalVars(n, m, s, t) == 3*n*m + n*n*m + m*m*n + n*s + m*t

\* ----------------------------------------------- get_clauses (design document)
\* A clause is the list of its literals; each function returns a list of
\* clauses, one per line it will occupy in the formula file.

\* Design document 3 and 9: IsOne is derived, not allocated: a literal over
\* the error indicator that applies to the observed bit.
generate_is_one(matrix, false_positives, false_negatives, is_two) ==
  [i \in 1..Len(matrix) |-> [j \in 1..Len(matrix[i]) |->
     IF matrix[i][j] = 0 THEN false_negatives[i][j]
                         ELSE -false_positives[i][j]]]

\* Family 1: not both IsOne and IsTwo, one clause per cell.
get_clauses_not_one_and_two(is_one, is_two) ==
  Flatten([i \in 1..Len(is_one) |-> [j \in 1..Len(is_one[i]) |->
     <<-is_one[i][j], -is_two[i][j]>>]])

\* Family 2, as far as its four arguments allow: a cell in the loss state
\* needs its column assigned to a cluster.  The allowed-losses set is not
\* among the arguments, so no clause here can depend on it.
get_clauses_no_forbidden(is_one, is_two, row_is_duplicate, col_is_duplicate) ==
  Flatten([i \in 1..Len(is_two) |-> [j \in 1..Len(is_two[i]) |->
     <<-is_two[i][j]>> \o col_is_duplicate[j]]])

\* Family 3: e <=> (the two cells have the same corrected state), for the
\* cells (a_one, a_two) and (b_one, b_two): four clauses for e => same, four
\* for same => e.
EqualityGadget(e, a_one, a_two, b_one, b_two) ==
  << <<-e, -a_one, b_one>>,
     <<-e, a_one, -b_one>>,
     <<-e, -a_two, b_two>>,
     <<-e, a_two, -b_two>>,
     <<e, -a_one, -b_one, -a_two, -b_two>>,
     <<e, -a_one, -b_one, a_two, b_two>>,
     <<e, a_one, b_one, -a_two, -b_two>>,
     <<e, a_one, b_one, a_two, b_two>> >>

\* Rows i < k compared at every column j.
get_col_pairs_equal_clauses(is_one, is_two, pair_in_col_equal) ==
  LET n == Len(is_one)
      m == Len(is_one[1])
  IN Flatten([i \in 1..n |-> Flatten([k \in 1..n |->
       IF i < k
       THEN Flatten([j \in 1..m |->
              EqualityGadget(pair_in_col_equal[i][k][j],
                             is_one[i][j], is_two[i][j],
                             is_one[k][j], is_two[k][j])])
       ELSE <<>>])])

\* Columns j < l compared at every row i.
get_row_pairs_equal_clauses(is_one, is_two, pair_in_row_equal) ==
  LET n == Len(is_one)
      m == Len(is_one[1])
  IN Flatten([j \in 1..m |-> Flatten([l \in 1..m |->
       IF j < l
       THEN Flatten([i \in 1..n |->
              EqualityGadget(pair_in_row_equal[j][l][i],
                             is_one[i][j], is_two[i][j],
                             is_one[i][l], is_two[i][l])])
       ELSE <<>>])])

\* Family 4: two rows assigned to the same cluster agree at every column.
get_row_duplicate_clauses(pair_in_col_equal, row_is_duplicate) ==
  LET n == Len(row_is_duplicate)
  IN Flatten([i \in 1..n |-> Flatten([k \in 1..n |->
       IF i < k
       THEN Flatten([c \in 1..Len(row_is_duplicate[i]) |->
              [j \in 1..Len(pair_in_col_equal[i][k]) |->
                 <<-row_is_duplicate[i][c], -row_is_duplicate[k][c],
                   pair_in_col_equal[i][k][j]>>]])
       ELSE <<>>])])

get_col_duplicate_clauses(pair_in_row_equal, col_is_duplicate) ==
  LET m == Len(col_is_duplicate)
  IN Flatten([j \in 1..m |-> Flatten([l \in 1..m |->
       IF j < l
       THEN Flatten([c \in 1..Len(col_is_duplicate[j]) |->
              [i \in 1..Len(pair_in_row_equal[j][l]) |->
                 <<-col_is_duplicate[j][c], -col_is_duplicate[l][c],
                   pair_in_row_equal[j][l][i]>>]])
       ELSE <<>>])])

\* Family 5: at most one variable true in each row of var_matrix, pairwise.
\* get_cnf passes False as second argument for both assignment matrices.
constrain_fp(var_matrix, flag) ==
  Flatten([i \in 1..Len(var_matrix) |->
    Flatten([c \in 1..Len(var_matrix[i]) |->
      Flatten([d \in 1..Len(var_matrix[i]) |->
        IF c < d THEN << <<-var_matrix[i][c], -var_matrix[i][d]>> >>
                 ELSE <<>>])])])

\* Family 6: one clause per row of var_matrix listing all its variables.
at_least_one(var_matrix) ==
  [i \in 1..Len(var_matrix) |-> var_matrix[i]]

\* ------------------------------------------------------- generate_formula.py
\* A matrix file: two header lines (cell count, mutation count) when header
\* is TRUE, then the rows.  Every line is the list of its integer tokens.
FileLines(matrix_file) ==
  IF matrix_file.header
  THEN << <<Len(matrix_file.rows)>>, <<Len(matrix_file.rows[1])>> >>
         \o matrix_file.rows
  ELSE matrix_file.rows

\* readlines()[2:], each remaining line split and parsed with int().
read_matrix(matrix_file) ==
  LET lines == FileLines(matrix_file)
  IN [k \in 1..(IF Len(lines) > 2 THEN Len(lines) - 2 ELSE 0) |-> lines[k + 2]]

\* losses_file.given is FALSE for filename None; otherwise lines holds the
\* file's lines, each the list of its comma-separated integers.
parse_allowed_losses(losses_file, num_mutations) ==
  IF ~losses_file.given
  THEN 0..(num_mutations - 1)
  ELSE IF Len(losses_file.lines) > 0
       THEN {losses_file.lines[1][k] : k \in 1..Len(losses_file.lines[1])}
       ELSE {}

\* The ten clause lists get_cnf builds, under the names of its locals.
ClauseLists(matrix, variables) ==
  LET false_positives == variables.false_positives
      false_negatives == variables.false_negatives
      pair_in_col_equal == variables.pair_in_col_equal
      pair_in_row_equal == variables.pair_in_row_equal
      col_is_duplicate == variables.col_is_duplicate
      row_is_duplicate == variables.row_is_duplicate
      is_two == variables.is_two
      is_one == generate_is_one(matrix, false_positives, false_negatives, is_two)
  IN [forbidden_clauses |->
        get_clauses_no_forbidden(is_one, is_two, row_is_duplicate, col_is_duplicate),
      not_one_and_two_clauses |-> get_clauses_not_one_and_two(is_one, is_two),
      row_duplicate_clauses |->
        get_row_duplicate_clauses(pair_in_col_equal, row_is_duplicate),
      col_duplicate_clauses |->
        get_col_duplicate_clauses(pair_in_row_equal, col_is_duplicate),
      col_pairs_equal_clauses |->
        get_col_pairs_equal_clauses(is_one, is_two, pair_in_col_equal),
      row_pairs_equal_clauses |->
        get_row_pairs_equal_clauses(is_one, is_two, pair_in_row_equal),
      one_row_duplicate |-> constrain_fp(row_is_duplicate, FALSE),
      one_col_duplicate |-> constrain_fp(col_is_duplicate, FALSE),
      at_least_one_row_dup |-> at_least_one(row_is_duplicate),
      at_least_one_col_dup |-> at_least_one(col_is_duplicate)]

\* CountedLists with the second pair of lists left out of the sum.
CountedListsMissingPair ==
  << "forbidden_clauses", "not_one_and_two_clauses",
     "col_pairs_equal_clauses", "row_pairs_equal_clauses",
     "one_row_duplicate", "one_col_duplicate",
     "at_least_one_row_dup", "at_least_one_col_dup" >>

\* The lists whose lengths get_cnf adds up for the header, in its order.
CountedLists ==
  << "forbidden_clauses", "not_one_and_two_clauses",
     "row_duplicate_clauses", "col_duplicate_clauses",
     "col_pairs_equal_clauses", "row_pairs_equal_clauses",
     "one_row_duplicate", "one_col_duplicate",
     "at_least_one_row_dup", "at_least_one_col_dup" >>

RECURSIVE SumLen(_, _)
SumLen(lists, names) ==
  IF names = <<>> THEN 0
  ELSE Len(lists[Head(names)]) + SumLen(lists, Tail(names))

num_clauses(lists) == SumLen(lists, CountedLists)

\* num_vars = col_is_duplicate[num_cols-1]: the last column's entry of the
\* ColAssign matrix, which is that column's list of t variables.
num_vars(col_is_duplicate, num_cols) == PyList(col_is_duplicate[num_cols])

\* f'p cnf {num_vars} {num_clauses}\n'
first_line(nv, nc) ==
  [list |-> "first_line", num_vars |-> nv, num_clauses |-> nc]

\* WrittenLists without the last two writelines calls.
WrittenListsWithoutAtLeastOne ==
  << "forbidden_clauses", "not_one_and_two_clauses",
     "row_duplicate_clauses", "col_duplicate_clauses",
     "col_pairs_equal_clauses", "row_pairs_equal_clauses",
     "one_row_duplicate", "one_col_duplicate" >>

\* WrittenLists with the cardinality lists written at-least-one first.
WrittenListsAtLeastOneFirst ==
  << "forbidden_clauses", "not_one_and_two_clauses",
     "row_duplicate_clauses", "col_duplicate_clauses",
     "col_pairs_equal_clauses", "row_pairs_equal_clauses",
     "at_least_one_row_dup", "at_least_one_col_dup",
     "one_row_duplicate", "one_col_duplicate" >>

\* The lists get_cnf hands to f.writelines, in its order.
WrittenLists ==
  << "forbidden_clauses", "not_one_and_two_clauses",
     "row_duplicate_clauses", "col_duplicate_clauses",
     "col_pairs_equal_clauses", "row_pairs_equal_clauses",
     "one_row_duplicate", "one_col_duplicate",
     "at_least_one_row_dup", "at_least_one_col_dup" >>

\* One line of the formula file per clause: its literals, and the name of
\* the list it came from.
ClauseLines(name, clauses) ==
  [k \in 1..Len(clauses) |-> [list |-> name, lits |-> clauses[k]]]

\* The content get_cnf writes to write_filename.
FormulaLines(lists, unigen, nv) ==
  (IF unigen THEN <<first_line(nv, num_clauses(lists))>> ELSE <<>>)
  \o Flatten([k \in 1..Len(WrittenLists) |->
               ClauseLines(WrittenLists[k], lists[WrittenLists[k]])])

\* UsesUnigen as "any sampler but Quicksampler".
UsesUnigenUnlessQuicksampler(sampler) == sampler # 1

\* The unigen argument both main blocks pass to get_cnf: args.sampler == 2.
UsesUnigen(sampler) == sampler = 2

\* ------------------------------------------------------- generate_samples.py
\* os_name as the main block derives it from platform.system().
os_name(platform_system) ==
  IF platform_system = "linux" \/ platform_system = "linux2" THEN "linux"
  ELSE IF platform_system = "Darwin" THEN "macOS"
  ELSE IF platform_system = "win32" THEN "win"
  ELSE ""

\* File names, relative to shortened_filename.
CnfFile == "tmp.formula.cnf"
VariablesFile == "variables"
SamplesFile == "tmp.formula.cnf.samples"
ValidFile == "tmp.formula.cnf.samples.valid"
UnigenFile == "tmp.formula.cnf.unigen"
\* generate_formula.py writes to --outfile and to "formula.vars".
OutFormulaFile == "formula.cnf"
FormulaVarsFile == "formula.vars"

\* The files clean_up removes.
CleanedFiles(unigen) ==
  {CnfFile, ValidFile, VariablesFile}
    \cup (IF unigen THEN {UnigenFile} ELSE {SamplesFile})

\* convert_unigen_to_quicksample: every line stripped and its first
\* character dropped.  A line is [framing, assignment]: framing is the text
\* in front of the literals, assignment the set of variables it makes true.
DropFirstChar(framing) == IF framing = "v" THEN "" ELSE framing

convert_unigen_to_quicksample(unigen_lines) ==
  [k \in 1..Len(unigen_lines) |->
     [framing |-> DropFirstChar(unigen_lines[k].framing),
      assignment |-> unigen_lines[k].assignment]]

\* ------------------------------------------------ the external sampler (6)
ClauseHolds(lits, assignment) ==
  \E k \in 1..Len(lits) :
    IF lits[k] > 0 THEN lits[k] \in assignment ELSE (-lits[k]) \notin assignment

Satisfies(assignment, lines) ==
  \A k \in 1..Len(lines) :
    lines[k].list = "first_line" \/ ClauseHolds(lines[k].lits, assignment)

FlatSet(mat) == {mat[i][j] : i \in 1..Len(mat), j \in 1..Len(mat[1])}
CubeSet(cube) ==
  {cube[i][k][j] : i \in 1..Len(cube), k \in 1..Len(cube), j \in 1..Len(cube[1][1])}

\* The assignment that gives every cell the corrected state x (0 absent,
\* 1 present, 2 lost), puts every row in cluster rc and every column in
\* cluster cc: the error indicators follow from the observed bits, and every
\* pairwise-equality variable is true.
UniformAssignment(mat, vars, x, rc, cc) ==
  LET n == Len(mat)
      m == Len(mat[1])
      cells == (1..n) \X (1..m)
  IN {vars.false_negatives[d[1]][d[2]] :
        d \in {e \in cells : mat[e[1]][e[2]] = 0 /\ x = 1}}
     \cup {vars.false_positives[d[1]][d[2]] :
             d \in {e \in cells : mat[e[1]][e[2]] # 0 /\ x # 1}}
     \cup (IF x = 2 THEN FlatSet(vars.is_two) ELSE {})
     \cup CubeSet(vars.pair_in_col_equal)
     \cup CubeSet(vars.pair_in_row_equal)
     \cup {vars.row_is_duplicate[i][rc] : i \in 1..n}
     \cup {vars.col_is_duplicate[j][cc] : j \in 1..m}

\* What a sampler run can leave behind for a formula: no sample at all (the
\* formula is unsatisfiable, or the time ran out), or one satisfying
\* assignment.  The samplers are external; the model lets them return the
\* uniform assignments that satisfy the formula file they were given.
SamplerResults(mat, vars, s, t, lines) ==
  {<<>>} \cup
  { <<a>> : a \in
      {b \in {UniformAssignment(mat, vars, x, rc, cc) :
                x \in 0..2, rc \in 1..s, cc \in 1..t} : Satisfies(b, lines)} }

\* --------------------------------------- reconstruct_solutions (design doc 4.3)
LitTrue(lit, assignment) ==
  IF lit > 0 THEN lit \in assignment ELSE (-lit) \notin assignment

\* The clusters whose assignment variable the sample makes true.
ClustersOf(assign_row, assignment) ==
  {c \in 1..Len(assign_row) : assign_row[c] \in assignment}

\* InconsistentAssignment: some row or column without exactly one cluster.
Consistent(vars, assignment) ==
  /\ \A i \in 1..Len(vars.row_is_duplicate) :
       Cardinality(ClustersOf(vars.row_is_duplicate[i], assignment)) = 1
  /\ \A j \in 1..Len(vars.col_is_duplicate) :
       Cardinality(ClustersOf(vars.col_is_duplicate[j], assignment)) = 1

\* One decoded sample: the cluster of every row and column and the corrected
\* state of every cell (0 absent, 1 present, 2 lost).
Decode(mat, vars, assignment) ==
  LET is_one == generate_is_one(mat, vars.false_positives,
                                vars.false_negatives, vars.is_two)
  IN [row_map |-> [i \in 1..Len(mat) |->
                     CHOOSE c \in ClustersOf(vars.row_is_duplicate[i], assignment) : TRUE],
      col_map |-> [j \in 1..Len(mat[1]) |->
                     CHOOSE c \in ClustersOf(vars.col_is_duplicate[j], assignment) : TRUE],
      states |-> [i \in 1..Len(mat) |-> [j \in 1..Len(mat[1]) |->
                    IF vars.is_two[i][j] \in assignment THEN 2
                    ELSE IF LitTrue(is_one[i][j], assignment) THEN 1 ELSE 0]]]

RECURSIVE DecodeAll(_, _, _)
DecodeAll(mat, vars, lines) ==
  IF lines = <<>> THEN <<>>
  ELSE (IF Consistent(vars, Head(lines).assignment) /\ Head(lines).framing = ""
        THEN <<Decode(mat, vars, Head(lines).assignment)>>
        ELSE <<>>)
       \o DecodeAll(mat, vars, Tail(lines))

\* reconstruct_solutions(filename, valid_solutions, outfile, variables, debug):
\* the decoded samples it writes to outfile; an inconsistent sample is skipped.
reconstruct_solutions(matrix_file, valid_lines, vars) ==
  DecodeAll(read_matrix(matrix_file), vars, valid_lines)

\* ------------------------------------------------------------------- state
VARIABLES
  args,            \* the parsed command line and the input files it names
  pc,              \* the statement of the main block that runs next
  matrix,          \* get_cnf: the matrix read_matrix returned
  variables,       \* the main block's variables: what get_cnf returned
  allowed_losses,  \* get_cnf: the set parse_allowed_losses returned
  files,           \* names of the output and temporary files that exist
  formula_cnf,     \* the lines of the formula file
  vars_file,       \* what write_vars wrote
  unigen_out,      \* the lines of the .unigen file
  valid_samples,   \* the lines of the .samples.valid file
  solutions,       \* the decoded samples written to --outfile
  decoder_vars,    \* the mapping reconstruct_solutions was called with
  trace,           \* the calls the main block has made so far
  error            \* the exception that ended the run, "" for none

vars == <<args, pc, matrix, variables, allowed_losses, files, formula_cnf,
          vars_file, unigen_out, valid_samples, solutions, decoder_vars,
          trace, error>>

\* ------------------------------------------------------------------ inputs
Shapes(cells) == {d \in (1..cells) \X (1..cells) : d[1] * d[2] <= cells}

Matrices(values, cells) ==
  UNION {[1..d[1] -> [1..d[2] -> values]] : d \in Shapes(cells)}

\* Matrix files: binary matrices with and without the two header lines, and
\* files whose cells are not binary.
MatrixFiles(cells) ==
  [header : BOOLEAN, rows : Matrices({0, 1}, cells)]
    \cup [header : {TRUE}, rows : Matrices({2}, cells)]

\* --allowed_losses: absent, an empty file, or one line with one column number.
LossesFiles ==
  {[given |-> FALSE, lines |-> <<>>], [given |-> TRUE, lines |-> <<>>]}
    \cup {[given |-> TRUE, lines |-> << <<k>> >>] : k \in 0..MaxLossIndex}

Unstarted ==
  /\ pc = "get_cnf"
  /\ matrix = <<>>
  /\ variables = EmptyVars
  /\ allowed_losses = {}
  /\ files = {}
  /\ formula_cnf = <<>>
  /\ vars_file = EmptyVars
  /\ unigen_out = <<>>
  /\ valid_samples = <<>>
  /\ solutions = <<>>
  /\ decoder_vars = EmptyVars
  /\ trace = <<>>
  /\ error = ""

\* A run of generate_formula.py.
Init ==
  /\ args \in [prog : {"generate_formula"},
               matrix_file : MatrixFiles(MaxCells),
               losses_file : LossesFiles,
               s : 0..MaxClusters, t : 0..MaxClusters,
               sampler : {1, 2, 3},
               debug : {FALSE},
               platform_system : {"Linux"}]
  /\ Unstarted

\* A run of generate_samples.py.
InitSamples ==
  /\ args \in [prog : {"generate_samples"},
               matrix_file : MatrixFiles(MaxSampleCells),
               losses_file : LossesFiles,
               s : 0..MaxClusters, t : 0..MaxClusters,
               sampler : {1, 2},
               debug : BOOLEAN,
               platform_system : {"Linux", "Darwin"}]
  /\ Unstarted

\* ----------------------------------------------------------------- actions
cnf_filename == IF args.prog = "generate_formula" THEN OutFormulaFile ELSE CnfFile

\* get_cnf(filename, cnf_filename, s, t, sampler == 2, allowed_losses), whole:
\* an empty matrix raises IndexError at len(matrix[0]) before anything is
\* allocated or written.
GetCnf ==
  /\ pc = "get_cnf"
  /\ LET mat == read_matrix(args.matrix_file)
     IN IF Len(mat) = 0
        THEN /\ pc' = "crashed"
             /\ error' = "IndexError"
             /\ UNCHANGED <<matrix, variables, allowed_losses, files, formula_cnf>>
        ELSE \E vs \in {create_variable_matrices(mat, args.s, args.t)} :
             \E lists \in {ClauseLists(mat, vs)} :
             LET num_cols == Len(mat[1])
             IN /\ matrix' = mat
                /\ variables' = vs
                /\ allowed_losses' = parse_allowed_losses(args.losses_file, num_cols)
                /\ formula_cnf' =
                     FormulaLines(lists, UsesUnigen(args.sampler),
                                  num_vars(vs.col_is_duplicate, num_cols))
                /\ files' = files \cup {cnf_filename}
                /\ pc' = "write_vars"
                /\ error' = error
  /\ trace' = Append(trace, "get_cnf")
  /\ UNCHANGED <<args, vars_file, unigen_out, valid_samples, solutions, decoder_vars>>

\* generate_formula.py: write_vars("formula.vars", variables), the last call.
FormulaWriteVars ==
  /\ pc = "write_vars"
  /\ args.prog = "generate_formula"
  /\ vars_file' = variables
  /\ files' = files \cup {FormulaVarsFile}
  /\ trace' = Append(trace, "write_vars")
  /\ pc' = "done"
  /\ UNCHANGED <<args, matrix, variables, allowed_losses, formula_cnf, unigen_out,
                 valid_samples, solutions, decoder_vars, error>>

\* AfterWriteVars with the sampler call left out.
AfterWriteVarsNoSampler == "reconstruct"

\* The statement that follows write_vars in generate_samples.py.
AfterWriteVars ==
  IF args.sampler = 1 THEN "quicksampler"
  ELSE IF os_name(args.platform_system) = "macOS" THEN "print_incompatible"
  ELSE "unigen"

\* generate_samples.py: write_vars(variables_filename, variables).
WriteVars ==
  /\ pc = "write_vars"
  /\ args.prog = "generate_samples"
  /\ vars_file' = variables
  /\ files' = files \cup {VariablesFile}
  /\ trace' = Append(trace, "write_vars")
  /\ pc' = AfterWriteVars
  /\ UNCHANGED <<args, matrix, variables, allowed_losses, formula_cnf, unigen_out,
                 valid_samples, solutions, decoder_vars, error>>

\* quicksampler_generator: quicksampler leaves <cnf>.samples, z3 leaves
\* <cnf>.samples.valid.
QuicksamplerGenerator ==
  /\ pc = "quicksampler"
  /\ \E out \in SamplerResults(matrix, variables, args.s, args.t, formula_cnf) :
       valid_samples' = [k \in 1..Len(out) |-> [framing |-> "", assignment |-> out[k]]]
  /\ files' = files \cup {SamplesFile, ValidFile}
  /\ trace' = Append(trace, "quicksampler_generator")
  /\ pc' = "reconstruct"
  /\ UNCHANGED <<args, matrix, variables, allowed_losses, formula_cnf, vars_file,
                 unigen_out, solutions, decoder_vars, error>>

\* print('Unigen not compatible with OS X'): the run ends here.
PrintIncompatible ==
  /\ pc = "print_incompatible"
  /\ trace' = Append(trace, "print")
  /\ pc' = "done"
  /\ UNCHANGED <<args, matrix, variables, allowed_losses, files, formula_cnf,
                 vars_file, unigen_out, valid_samples, solutions, decoder_vars, error>>

\* unigensampler_generator: unigen leaves <cnf>.unigen, a "v" in front of
\* every sample.
UnigensamplerGenerator ==
  /\ pc = "unigen"
  /\ \E out \in SamplerResults(matrix, variables, args.s, args.t, formula_cnf) :
       unigen_out' = [k \in 1..Len(out) |-> [framing |-> "v", assignment |-> out[k]]]
  /\ files' = files \cup {UnigenFile}
  /\ trace' = Append(trace, "unigensampler_generator")
  /\ pc' = "convert"
  /\ UNCHANGED <<args, matrix, variables, allowed_losses, formula_cnf, vars_file,
                 valid_samples, solutions, decoder_vars, error>>

ConvertUnigenToQuicksample ==
  /\ pc = "convert"
  /\ valid_samples' = convert_unigen_to_quicksample(unigen_out)
  /\ files' = files \cup {ValidFile}
  /\ trace' = Append(trace, "convert_unigen_to_quicksample")
  /\ pc' = "reconstruct"
  /\ UNCHANGED <<args, matrix, variables, allowed_losses, formula_cnf, vars_file,
                 unigen_out, solutions, decoder_vars, error>>

\* The mapping the main block hands to reconstruct_solutions.
DecoderMapping == variables

\* The statement that follows reconstruct_solutions.
AfterReconstruct == IF ~args.debug THEN "clean_up" ELSE "done"

ReconstructSolutions ==
  /\ pc = "reconstruct"
  /\ decoder_vars' = DecoderMapping
  /\ solutions' = reconstruct_solutions(args.matrix_file, valid_samples, DecoderMapping)
  /\ trace' = Append(trace, "reconstruct_solutions")
  /\ pc' = AfterReconstruct
  /\ UNCHANGED <<args, matrix, variables, allowed_losses, files, formula_cnf,
                 vars_file, unigen_out, valid_samples, error>>

\* clean_up(shortened_filename, False) after quicksampler, (.., True) on the
\* unigen branch.
CleanUp ==
  /\ pc = "clean_up"
  /\ files' = files \ CleanedFiles(args.sampler # 1)
  /\ trace' = Append(trace, "clean_up")
  /\ pc' = "done"
  /\ UNCHANGED <<args, matrix, variables, allowed_losses, formula_cnf, vars_file,
                 unigen_out, valid_samples, solutions, decoder_vars, error>>

Next == GetCnf \/ FormulaWriteVars

NextSamples ==
  \/ GetCnf
  \/ WriteVars
  \/ QuicksamplerGenerator
  \/ PrintIncompatible
  \/ UnigensamplerGenerator
  \/ ConvertUnigenToQuicksample
  \/ ReconstructSolutions
  \/ CleanUp

Spec == Init /\ [][Next]_vars

SpecSamples == InitSamples /\ [][NextSamples]_vars

\* ------------------------------------------------------------------ claims
GetCnfReturned == pc \notin {"get_cnf", "crashed"}

HeaderAt(k) == formula_cnf[k].list = "first_line"

ClauseLineNumbers == {k \in 1..Len(formula_cnf) : ~HeaderAt(k)}

IsPrefix(a, b) ==
  /\ Len(a) <= Len(b)
  /\ \A k \in 1..Len(a) : a[k] = b[k]

\* Malformed input in the sense of design document 7.
MissingHeader == ~args.matrix_file.header
NonBinaryCell ==
  \E i \in 1..Len(args.matrix_file.rows) :
    \E j \in 1..Len(args.matrix_file.rows[i]) :
      args.matrix_file.rows[i][j] \notin {0, 1}
LossIndexOutOfRange ==
  /\ args.losses_file.given
  /\ \E l \in 1..Len(args.losses_file.lines) :
       \E k \in 1..Len(args.losses_file.lines[l]) :
         args.losses_file.lines[l][k] \notin 0..(Len(args.matrix_file.rows[1]) - 1)
MalformedInput == MissingHeader \/ NonBinaryCell \/ LossIndexOutOfRange

\* Cluster counts design document 7 calls invalid.
InvalidClusterCount == args.s <= 0 \/ args.t <= 0

\* C1: no decoded sample reports the loss state (2) for a cell whose column
\* is outside the set parse_allowed_losses returned (stated for well-formed
\* input and positive cluster counts).
NoLossOutsideAllowedLosses ==
  (~MalformedInput /\ ~InvalidClusterCount) =>
  \A k \in 1..Len(solutions) :
    \A i \in 1..Len(solutions[k].states) :
      \A j \in 1..Len(solutions[k].states[i]) :
        solutions[k].states[i][j] = 2 => (j - 1) \in allowed_losses

\* The clauses of the written formula that mention only variables of vs.
ClausesOver(vs) ==
  {formula_cnf[k].lits : k \in
     {q \in ClauseLineNumbers :
        \A r \in 1..Len(formula_cnf[q].lits) : Abs(formula_cnf[q].lits[r]) \in vs}}

\* Every assignment to the variables of assign_row that satisfies the
\* formula's clauses over those variables makes exactly one of them true.
ExactlyOneOf(vs, clauses) ==
  \A b \in SUBSET vs :
    (\A lits \in clauses : ClauseHolds(lits, b)) => Cardinality(b) = 1

ExactlyOneForced(assign_row) ==
  LET vs == {assign_row[c] : c \in 1..Len(assign_row)}
  IN ExactlyOneOf(vs, ClausesOver(vs))

\* C2: the formula get_cnf wrote forces exactly one RowAssign(i,.) per row i
\* and exactly one ColAssign(j,.) per column j: any assignment that satisfies
\* its clauses makes exactly one of the row's (column's) variables true.
ExactlyOneClusterEach ==
  GetCnfReturned =>
    /\ \A i \in 1..Len(variables.row_is_duplicate) :
         ExactlyOneForced(variables.row_is_duplicate[i])
    /\ \A j \in 1..Len(variables.col_is_duplicate) :
         ExactlyOneForced(variables.col_is_duplicate[j])

\* A formula for two rows, two columns and two clusters each way, where both
\* cardinality families have clauses to contribute.
ExactlyOneClusterWitness ==
  /\ pc = "done"
  /\ Len(matrix) = 2 /\ Len(matrix[1]) = 2
  /\ args.s = 2 /\ args.t = 2
  /\ \E k \in ClauseLineNumbers : formula_cnf[k].list = "one_col_duplicate"
  /\ \E k \in ClauseLineNumbers : formula_cnf[k].list = "at_least_one_row_dup"

\* C3: the formula file starts with the header line exactly when --sampler
\* is 2, and no other line of it is a header line.
HeaderIffUnigen ==
  GetCnfReturned =>
    /\ (Len(formula_cnf) > 0 /\ HeaderAt(1)) <=> (args.sampler = 2)
    /\ \A k \in 2..Len(formula_cnf) : ~HeaderAt(k)

\* A unigen run whose formula file starts with the header line.
HeaderWitness ==
  /\ pc = "done"
  /\ args.sampler = 2
  /\ HeaderAt(1)
  /\ Len(formula_cnf) > 1

\* C4: the clause count of a header line equals the number of clause lines
\* written after it.
HeaderCountsClauseLines ==
  \A k \in 1..Len(formula_cnf) :
    HeaderAt(k) =>
      formula_cnf[k].num_clauses = Cardinality({q \in ClauseLineNumbers : q > k})

\* A header in front of a formula to which all ten lists contribute.
HeaderCountWitness ==
  /\ pc = "done"
  /\ HeaderAt(1)
  /\ \A k \in 1..Len(WrittenLists) :
       \E q \in ClauseLineNumbers : formula_cnf[q].list = WrittenLists[k]
  /\ formula_cnf[1].num_clauses = Len(formula_cnf) - 1

\* C5: the variable count of a header line is one integer, the highest index
\* the allocator handed out, and no literal of the file exceeds it (stated
\* for well-formed input and positive cluster counts).
HeaderVarCountIsHighestIndex ==
  (~MalformedInput /\ ~InvalidClusterCount) =>
  \A k \in 1..Len(formula_cnf) :
    HeaderAt(k) =>
      /\ formula_cnf[k].num_vars.tag = "int"
      /\ formula_cnf[k].num_vars.ints =
           <<TotalVars(Len(matrix), Len(matrix[1]), args.s, args.t)>>
      /\ \A q \in ClauseLineNumbers :
           \A r \in 1..Len(formula_cnf[q].lits) :
             Abs(formula_cnf[q].lits[r]) <= formula_cnf[k].num_vars.ints[1]

\* The place of a clause list in the design document's list of families:
\* mutual exclusion, forbidden states, pairwise equality, cluster consistency,
\* at most one, at least one.
DesignRank(name) ==
  CASE name = "not_one_and_two_clauses" -> 1
    [] name = "forbidden_clauses" -> 2
    [] name \in {"col_pairs_equal_clauses", "row_pairs_equal_clauses"} -> 3
    [] name \in {"row_duplicate_clauses", "col_duplicate_clauses"} -> 4
    [] name \in {"one_row_duplicate", "one_col_duplicate"} -> 5
    [] name \in {"at_least_one_row_dup", "at_least_one_col_dup"} -> 6
    [] OTHER -> 0

\* The place of a clause list in the order forbidden states, mutual exclusion,
\* cluster consistency (rows, columns), pairwise equality (row pairs at a
\* column, column pairs at a row), at most one (rows, columns), at least one
\* (rows, columns).
FileRank(name) ==
  CASE name = "forbidden_clauses" -> 1
    [] name = "not_one_and_two_clauses" -> 2
    [] name = "row_duplicate_clauses" -> 3
    [] name = "col_duplicate_clauses" -> 4
    [] name = "col_pairs_equal_clauses" -> 5
    [] name = "row_pairs_equal_clauses" -> 6
    [] name = "one_row_duplicate" -> 7
    [] name = "one_col_duplicate" -> 8
    [] name = "at_least_one_row_dup" -> 9
    [] name = "at_least_one_col_dup" -> 10
    [] OTHER -> 0

\* C6, as claimed: the clause lines follow the design document's order of
\* families; no clause of a later family precedes one of an earlier family.
ClausesInDesignOrder ==
  \A p \in ClauseLineNumbers : \A q \in ClauseLineNumbers :
    p < q => DesignRank(formula_cnf[p].list) <= DesignRank(formula_cnf[q].list)

\* C6, amended: the clause lines follow the order forbidden states, mutual
\* exclusion, cluster consistency, pairwise equality, at most one, at least
\* one (rows before columns within each); no clause line is followed by a
\* clause line of an earlier group, so none of a later group precedes one of
\* an earlier group.
ClausesInFileOrder ==
  \A p \in ClauseLineNumbers :
    (p + 1) \in ClauseLineNumbers =>
      FileRank(formula_cnf[p].list) <= FileRank(formula_cnf[p + 1].list)

\* A written formula in which every one of the ten groups has a clause.
FileOrderWitness ==
  /\ GetCnfReturned
  /\ \A r \in 1..10 : \E q \in ClauseLineNumbers : FileRank(formula_cnf[q].list) = r

\* C7: on malformed input (no header lines, a cell other than 0 or 1, an
\* allowed-losses column outside [0, m)) get_cnf returns no mapping and no
\* formula file is written (stated for positive cluster counts).
MalformedInputRejected ==
  (MalformedInput /\ ~InvalidClusterCount) =>
    /\ variables = EmptyVars
    /\ formula_cnf = <<>>
    /\ cnf_filename \notin files

\* C8: with s <= 0 or t <= 0 no variable is allocated, no clause generated
\* and no formula file written (stated for well-formed input).
InvalidClusterCountRejected ==
  (InvalidClusterCount /\ ~MalformedInput) =>
    /\ variables = EmptyVars
    /\ formula_cnf = <<>>
    /\ cnf_filename \notin files

\* The calls of a run, in the order the design gives them.
PipelineCalls ==
  IF args.sampler = 1
  THEN << "get_cnf", "write_vars", "quicksampler_generator",
          "reconstruct_solutions" >>
  ELSE << "get_cnf", "write_vars", "unigensampler_generator",
          "convert_unigen_to_quicksample", "reconstruct_solutions" >>

IsPipelineCall(name) == \E k \in 1..Len(PipelineCalls) : PipelineCalls[k] = name

\* C9: the pipeline calls made so far are, in order, a prefix of get_cnf,
\* write_vars, sampler, (unigen: normalisation,) reconstruct_solutions; and
\* once the decoder has been called, the mapping it got is the one get_cnf
\* returned for the matrix and cluster counts of the sampled formula.
PipelineInOrder ==
  /\ IsPrefix(SelectSeq(trace, IsPipelineCall), PipelineCalls)
  /\ (\E k \in 1..Len(trace) : trace[k] = "reconstruct_solutions") =>
       /\ decoder_vars = variables
       /\ decoder_vars = create_variable_matrices(matrix, args.s, args.t)

\* A finished unigen run whose decoder produced a solution.
PipelineWitness ==
  /\ pc = "done"
  /\ args.sampler = 2
  /\ Len(solutions) > 0
  /\ SelectSeq(trace, IsPipelineCall) = PipelineCalls

\* The temporary files a run can create.
TempFiles == {CnfFile, VariablesFile, SamplesFile, ValidFile, UnigenFile}

\* C10: when a run has ended normally, a non-debug run has left none of its
\* temporary files behind, and a debug run has never called clean_up and has
\* kept the formula and variables files (stated for well-formed input and
\* positive cluster counts).
TempFilesRemovedUnlessDebug ==
  (pc = "done" /\ ~MalformedInput /\ ~InvalidClusterCount) =>
    IF ~args.debug
    THEN files \cap TempFiles = {}
    ELSE /\ \A k \in 1..Len(trace) : trace[k] # "clean_up"
         /\ {CnfFile, VariablesFile} \subseteq files

=============================================================================
